---- MODULE Spec2Model ----
(***************************************************************************)
(* Remote switch (ESP32, FreeRTOS): a button interrupt wakes a dispatch    *)
(* task, which builds a command and hands it to the TCP client; the TCP    *)
(* client queues it for a worker task that the WiFi/IP event handlers      *)
(* create and delete.                                                      *)
(*                                                                         *)
(* Tasks of the model, each with its own program counter:                  *)
(*   main task   (mpc)   app_main, then the application's stop/start calls *)
(*   ISR                 button_CB                                         *)
(*   dispatch    (disp)  remote_switch_handler_func, calling send_message  *)
(*   event task  (evpc)  WiFi_event_handler / IP_event_handler             *)
(*   workers     (workers[i].pc)  cmd_TX_func, one per xTaskCreate         *)
(* A step is one blocking or shared-memory call of the source.  Time is    *)
(* not modelled.  A wait of MAX_TIME_TO_WAIT_TO_SEND (one second) may time *)
(* out whenever the awaited token is held by another task.  A wait of      *)
(* portMAX_DELAY-1 ticks (2^32-2 ticks) times out only when nothing can    *)
(* ever end the wait: the queue is full and no worker task exists, or the  *)
(* guard's token was held by a task that has been deleted.                 *)
(***************************************************************************)
EXTENDS Integers, Sequences, FiniteSets, TLC

(***************************************************************************)
(* Bounds of the model.                                                    *)
(***************************************************************************)
\* Button presses (button_CB invocations) observed in one behaviour.
MaxPresses == 3
\* Worker tasks that xTaskCreate can create in one behaviour.
MaxWorkers == 2
\* Calls of init_TCP_client in one behaviour.
MaxInits == 2
\* Largest press counter the level-cycling specification starts from.
MaxCount == 30

(***************************************************************************)
(* Program constants.                                                      *)
(***************************************************************************)
RX_QUEUE_LEN == 10
MAX_DUTY_CYCLE_PERC == 100
MIN_DUTY_CYCLE_PERC == 20
\* NULL handle (task, semaphore).
NULL == -1

Button_ID == {"BUTTON_0", "BUTTON_1", "BUTTON_2"}

\* TCP_COMMAND_TYPE: ID, action, pwm.  GARBAGE stands for the bytes of an
\* uninitialised local.
Cmd(id, action, pwm) == [ID |-> id, action |-> action, pwm |-> pwm]
UninitCmds == {Cmd("LED_0", "GARBAGE", 0), Cmd("LED_0", "TOOGLE_LED", 0)}
ZeroCmd == Cmd("ZERO", "ZERO", 0)
\* cmd_TX_queue after a failed xQueueCreate: a NULL handle, not a queue.
NullQueue == << Cmd("NULL", "NULL", 0) >>

VARIABLES
  \* ---- Remote_switch.c
  remote_switches_infos, \* button -> [semaphore: NULL, 0 or 1; task_handler: task exists]
  pressed_button,   \* last pressed button
  num_of_presses,   \* Button module: press counter of each button
  button_on,        \* Button module: the buttons whose interrupt is armed
  disp,             \* dispatch task of each button: [pc, cmd, ret, cs_false]
  \* ---- TCP_client.c
  send_cmd_task_handler,       \* NULL or a worker id (also of a deleted worker)
  cmd_TX_queue,                \* the commands in the queue
  connection_state,
  connection_state_sempahore,  \* NULL, 0 or 1
  module_was_initialized,
  workers,          \* worker id -> [pc, cmd, stale, io]; stale observes that cmd
                    \* was queued or being sent when a LinkDown was handled, io the
                    \* outcome of the last connect() or write()
  evpc,             \* event task: program counter
  wifi_on,          \* WiFi module: started, events are delivered
  \* ---- main.c and the application
  mpc,              \* main task: program counter
  rs_ret,           \* last return code of init_remote_switch / de_init_remote_switch
  init_ret,         \* last return code of init_TCP_client
  deinit_ret,       \* last return code of de_init_TCP_client
  crashed,          \* the firmware aborted
  \* ---- observers (not program state)
  lifecycle,        \* connection lifecycle: Disconnected, Connecting, Connected
  presses,          \* button_CB invocations
  lost,             \* button_CB invocations that found the semaphore already given
  dispatched,       \* send_message calls of the dispatch tasks
  tx,               \* the commands handed to write(), in order
  inits,            \* init_TCP_client calls
  midsend_down,     \* the last LinkDown was delivered while a worker was mid-send
  enq,              \* the commands send_message put in the queue, in order
  stale,            \* commands at the head of the queue that were queued when the
                    \* last LinkDown was handled
  set_ret,          \* last return value of set_connection_state
  reconnect         \* esp_wifi_connect calls made for the last LinkDown

rsVars == << remote_switches_infos, pressed_button, num_of_presses, button_on, disp >>
tcpVars == << send_cmd_task_handler, cmd_TX_queue, connection_state,
              connection_state_sempahore, module_was_initialized, workers, evpc,
              wifi_on >>
mainVars == << mpc, rs_ret, init_ret, deinit_ret, crashed >>
obsVars == << lifecycle, presses, lost, dispatched, tx, inits, midsend_down,
              enq, stale, set_ret, reconnect >>
\* The observers but one.
obsButEnq == << lifecycle, presses, lost, dispatched, tx, inits, midsend_down,
                stale, set_ret, reconnect >>
obsButStale == << lifecycle, presses, lost, dispatched, tx, inits, midsend_down,
                  enq, set_ret, reconnect >>
obsButSetRet == << lifecycle, presses, lost, dispatched, tx, inits, midsend_down,
                   enq, stale, reconnect >>
vars == << rsVars, tcpVars, mainVars, obsVars >>

WorkerIds == 1..MaxWorkers
NoWorker == [pc |-> "none", cmd |-> ZeroCmd, stale |-> FALSE, io |-> "none"]
\* cs_false observes a send_message call in progress: connection_state has been
\* false since the call began.
NoTask == [pc |-> "none", cmd |-> ZeroCmd, ret |-> "NONE", cs_false |-> FALSE]

\* A worker task exists: created and not deleted.
Alive(w) == workers[w].pc \in {"recv", "connect", "write", "close"}
WorkerExists == \E w \in WorkerIds : Alive(w)
MidSend(w) == workers[w].pc \in {"connect", "write", "close"}

(***************************************************************************)
(* State after construction: statics are zero, no task runs but main.      *)
(***************************************************************************)
Init ==
  /\ remote_switches_infos = [b \in Button_ID |-> [semaphore |-> NULL, task_handler |-> FALSE]]
  /\ pressed_button = "BUTTON_0"
  /\ num_of_presses = [b \in Button_ID |-> 0]
  /\ button_on = {}
  /\ disp = [b \in Button_ID |-> NoTask]
  /\ send_cmd_task_handler = NULL
  /\ cmd_TX_queue = << >>
  /\ connection_state = FALSE
  /\ connection_state_sempahore = NULL
  /\ module_was_initialized = FALSE
  /\ workers = [w \in WorkerIds |-> NoWorker]
  /\ evpc = "idle"
  /\ wifi_on = FALSE
  /\ mpc = "boot"
  /\ rs_ret = "NONE"
  /\ init_ret = "NONE"
  /\ deinit_ret = "NONE"
  /\ crashed = FALSE
  /\ lifecycle = "Disconnected"
  /\ presses = 0
  /\ lost = 0
  /\ dispatched = 0
  /\ tx = << >>
  /\ inits = 0
  /\ midsend_down = FALSE
  /\ enq = << >>
  /\ stale = 0
  /\ set_ret = "NONE"
  /\ reconnect = 0

(***************************************************************************)
(* Remote_switch.c                                                         *)
(***************************************************************************)

\* init_remote_switch(ID), called by the main task.  which: the call that fails
\* ("button": init_button, "sem": xSemaphoreCreateCounting, "task": xTaskCreate)
\* or "ok".  A failed xSemaphoreCreateCounting stores NULL and is followed by
\* vSemaphoreDelete(NULL), which aborts or does nothing.  The new task's local cmd
\* is uninitialised.
init_remote_switch(ID, which, garbage) ==
  /\ rs_ret' = IF which = "ok" THEN "CORE_REMOTE_SWITCH_OK" ELSE "CORE_REMOTE_SWITCH_INIT_ERR"
  /\ button_on' = IF which = "button" THEN button_on ELSE button_on \cup {ID}
  /\ remote_switches_infos' =
       [remote_switches_infos EXCEPT ![ID] =
          [semaphore |-> CASE which = "button" -> @.semaphore
                           [] which = "sem" -> NULL
                           [] OTHER -> 0,
           task_handler |-> IF which = "ok" THEN TRUE ELSE @.task_handler]]
  /\ disp' = IF which = "ok"
               THEN [disp EXCEPT ![ID] = [NoTask EXCEPT !.pc = "take", !.cmd = garbage]]
               ELSE disp
  /\ crashed' \in IF which = "sem" THEN BOOLEAN ELSE {crashed}

\* app_main: init_remote_switch(BUTTON_0); its result is only logged.
MainInitRemoteSwitch ==
  /\ ~crashed /\ mpc = "boot"
  /\ \E which \in {"ok", "button", "sem", "task"}, g \in UninitCmds :
       init_remote_switch("BUTTON_0", which, g)
  /\ mpc' = "start_client"
  /\ UNCHANGED << pressed_button, num_of_presses, tcpVars, init_ret, deinit_ret,
                  obsVars >>

\* Faulty variant of button_CB: the semaphore counts every give.
button_CB_Counts(ID) ==
  /\ ~crashed /\ ID \in button_on /\ presses < MaxPresses
  /\ num_of_presses' = [num_of_presses EXCEPT ![ID] = @ + 1]
  /\ pressed_button' = ID
  /\ presses' = presses + 1
  /\ LET s == remote_switches_infos["BUTTON_0"].semaphore IN
       /\ crashed' = (s = NULL)
       /\ remote_switches_infos' =
            IF s = NULL THEN remote_switches_infos
            ELSE [remote_switches_infos EXCEPT !["BUTTON_0"].semaphore = s + 1]
       /\ UNCHANGED lost
  /\ UNCHANGED << button_on, disp, tcpVars, mpc, rs_ret, init_ret, deinit_ret,
                  lifecycle, dispatched, tx, inits, midsend_down, enq, stale,
                  set_ret, reconnect >>

\* The Button module counts the press (a uint64_t, which no run of the model wraps),
\* then button_CB(ID) runs in the ISR:
\* pressed_button = ID; xSemaphoreGiveFromISR(remote_switches_infos[BUTTON_0].semaphore).
\* Giving a semaphore whose count is 1 fails and changes nothing; a NULL
\* semaphore handle aborts.
button_CB(ID) ==
  /\ ~crashed /\ ID \in button_on /\ presses < MaxPresses
  /\ num_of_presses' = [num_of_presses EXCEPT ![ID] = @ + 1]
  /\ pressed_button' = ID
  /\ presses' = presses + 1
  /\ LET s == remote_switches_infos["BUTTON_0"].semaphore IN
       /\ crashed' = (s = NULL)
       /\ remote_switches_infos' =
            IF s = NULL THEN remote_switches_infos
            ELSE [remote_switches_infos EXCEPT !["BUTTON_0"].semaphore = 1]
       /\ lost' = IF s = 1 THEN lost + 1 ELSE lost
  /\ UNCHANGED << button_on, disp, tcpVars, mpc, rs_ret, init_ret, deinit_ret,
                  lifecycle, dispatched, tx, inits, midsend_down, enq, stale,
                  set_ret, reconnect >>

\* Faulty variant of DispTake: the take does not consume the signal.
DispTake_KeepsSignal(t) ==
  /\ ~crashed /\ disp[t].pc = "take"
  /\ remote_switches_infos["BUTTON_0"].semaphore = 1
  /\ disp' = [disp EXCEPT ![t].pc = "switch"]
  /\ UNCHANGED << remote_switches_infos, pressed_button, num_of_presses, button_on,
                  tcpVars, mainVars, obsVars >>

\* remote_switch_handler_func: xSemaphoreTake(remote_switches_infos[BUTTON_0].semaphore,
\* portMAX_DELAY) == pdTRUE.
DispTake(t) ==
  /\ ~crashed /\ disp[t].pc = "take"
  /\ remote_switches_infos["BUTTON_0"].semaphore = 1
  /\ remote_switches_infos' = [remote_switches_infos EXCEPT !["BUTTON_0"].semaphore = 0]
  /\ disp' = [disp EXCEPT ![t].pc = "switch"]
  /\ UNCHANGED << pressed_button, num_of_presses, button_on, tcpVars, mainVars, obsVars >>

\* Faulty variant of DispSwitch: the task builds the command of the button it was
\* created for, not of pressed_button.
DispSwitch_OwnButton(t) ==
  /\ ~crashed /\ disp[t].pc = "switch"
  /\ disp' = [disp EXCEPT ![t] =
       CASE t = "BUTTON_0" ->
              [@ EXCEPT !.cmd = Cmd("LED_0", "TOOGLE_LED", @.pwm), !.pc = "send"]
         [] t = "BUTTON_1" ->
              [@ EXCEPT !.cmd = Cmd("LED_0", "SET_PWM", @.pwm), !.pc = "getnum"]
         [] OTHER -> [@ EXCEPT !.pc = "send"]]
  /\ UNCHANGED << remote_switches_infos, pressed_button, num_of_presses, button_on,
                  tcpVars, mainVars, obsVars >>

\* switch(pressed_button): BUTTON_0 builds the toggle command; BUTTON_1 sets ID and
\* action and goes on to get_num_of_presses; any other value leaves cmd as it is.
DispSwitch(t) ==
  /\ ~crashed /\ disp[t].pc = "switch"
  /\ disp' = [disp EXCEPT ![t] =
       CASE pressed_button = "BUTTON_0" ->
              [@ EXCEPT !.cmd = Cmd("LED_0", "TOOGLE_LED", @.pwm), !.pc = "send"]
         [] pressed_button = "BUTTON_1" ->
              [@ EXCEPT !.cmd = Cmd("LED_0", "SET_PWM", @.pwm), !.pc = "getnum"]
         [] OTHER -> [@ EXCEPT !.pc = "send"]]
  /\ UNCHANGED << remote_switches_infos, pressed_button, num_of_presses, button_on,
                  tcpVars, mainVars, obsVars >>

\* Faulty variant of duty_cycle: the count is reduced modulo 10.
duty_cycle_mod10(n) ==
  LET pwm == ((n % 10) * 10) + MIN_DUTY_CYCLE_PERC IN
    IF pwm > MAX_DUTY_CYCLE_PERC THEN MIN_DUTY_CYCLE_PERC ELSE pwm

\* cmd.pwm = ((num_of_presses%9)*10u) + MIN_DUTY_CYCLE_PERC; above
\* MAX_DUTY_CYCLE_PERC it becomes MIN_DUTY_CYCLE_PERC.
duty_cycle(n) ==
  LET pwm == ((n % 9) * 10) + MIN_DUTY_CYCLE_PERC IN
    IF pwm > MAX_DUTY_CYCLE_PERC THEN MIN_DUTY_CYCLE_PERC ELSE pwm

\* case BUTTON_1: get_num_of_presses(BUTTON_1, &num_of_presses), then the duty cycle.
DispGetNum(t) ==
  /\ ~crashed /\ disp[t].pc = "getnum"
  /\ disp' = [disp EXCEPT ![t].cmd.pwm = duty_cycle(num_of_presses["BUTTON_1"]),
                          ![t].pc = "send"]
  /\ UNCHANGED << remote_switches_infos, pressed_button, num_of_presses, button_on,
                  tcpVars, mainVars, obsVars >>

(***************************************************************************)
(* TCP_client.c: the connection state guard.                               *)
(***************************************************************************)

\* xSemaphoreGive(connection_state_sempahore): the count becomes 1 (it stays 1, and
\* the give fails, when the semaphore was created anew meanwhile).
GiveToken == IF connection_state_sempahore = NULL THEN NULL ELSE 1

(***************************************************************************)
(* TCP_client.c: send_message, run by a dispatch task.                     *)
(***************************************************************************)

\* Faulty variant of SendEntry: module_was_initialized is not checked.
SendEntry_NoInitCheck(t) ==
  /\ ~crashed /\ disp[t].pc = "send"
  /\ dispatched' = dispatched + 1
  /\ disp' = [disp EXCEPT ![t].cs_false = ~connection_state, ![t].pc = "get"]
  /\ UNCHANGED << remote_switches_infos, pressed_button, num_of_presses, button_on,
                  tcpVars, mainVars, lifecycle, presses, lost, tx, inits,
                  midsend_down, enq, stale, set_ret, reconnect >>

\* send_message entry: if(!module_was_initialized) return ..._NOT_INIT_ERR.
SendEntry(t) ==
  /\ ~crashed /\ disp[t].pc = "send"
  /\ dispatched' = dispatched + 1
  /\ disp' = [disp EXCEPT
       ![t].cs_false = module_was_initialized /\ ~connection_state,
       ![t].ret = IF module_was_initialized THEN @
                  ELSE "CORE_TCP_CLIENT_MODULE_WAS_NOT_INIT_ERR",
       ![t].pc = IF module_was_initialized THEN "get" ELSE "take"]
  /\ UNCHANGED << remote_switches_infos, pressed_button, num_of_presses, button_on,
                  tcpVars, mainVars, lifecycle, presses, lost, tx, inits,
                  midsend_down, enq, stale, set_ret, reconnect >>

\* get_connection_state(MAX_TIME_TO_WAIT_TO_SEND): xSemaphoreTake succeeds.  Taking
\* a NULL semaphore handle aborts.
SendGetTake(t) ==
  /\ ~crashed /\ disp[t].pc = "get"
  /\ connection_state_sempahore # 0
  /\ IF connection_state_sempahore = NULL
       THEN /\ crashed' = TRUE
            /\ UNCHANGED << disp, connection_state_sempahore >>
       ELSE /\ connection_state_sempahore' = 0
            /\ disp' = [disp EXCEPT ![t].pc = "hold"]
            /\ UNCHANGED crashed
  /\ UNCHANGED << remote_switches_infos, pressed_button, num_of_presses, button_on,
                  send_cmd_task_handler, cmd_TX_queue, connection_state,
                  module_was_initialized, workers, evpc, wifi_on,
                  mpc, rs_ret, init_ret, deinit_ret, obsVars >>

\* get_connection_state: the token is not free within the second; it returns false
\* and send_message returns ..._SEND_TIME_OUT_WARN.
SendGetTimeout(t) ==
  /\ ~crashed /\ disp[t].pc = "get"
  /\ connection_state_sempahore = 0
  /\ disp' = [disp EXCEPT ![t].pc = "take", ![t].cs_false = FALSE,
                          ![t].ret = "CORE_TCP_CLIENT_SEND_TIME_OUT_WARN"]
  /\ UNCHANGED << remote_switches_infos, pressed_button, num_of_presses, button_on,
                  tcpVars, mainVars, obsVars >>

\* Faulty variant of SendGetRead: the state read is ignored and the command is
\* queued in any case.
SendGetRead_IgnoresState(t) ==
  /\ ~crashed /\ disp[t].pc = "hold"
  /\ connection_state_sempahore' = GiveToken
  /\ disp' = [disp EXCEPT ![t].pc = "enqueue"]
  /\ UNCHANGED << remote_switches_infos, pressed_button, num_of_presses, button_on,
                  send_cmd_task_handler, cmd_TX_queue, connection_state,
                  module_was_initialized, workers, evpc, wifi_on, mainVars, obsVars >>

\* get_connection_state: state = connection_state; xSemaphoreGive; return state.
\* false makes send_message return ..._SEND_TIME_OUT_WARN.
SendGetRead(t) ==
  /\ ~crashed /\ disp[t].pc = "hold"
  /\ connection_state_sempahore' = GiveToken
  /\ disp' = [disp EXCEPT
       ![t].pc = IF connection_state THEN "enqueue" ELSE "take",
       ![t].cs_false = IF connection_state THEN @ ELSE FALSE,
       ![t].ret = IF connection_state THEN @ ELSE "CORE_TCP_CLIENT_SEND_TIME_OUT_WARN"]
  /\ UNCHANGED << remote_switches_infos, pressed_button, num_of_presses, button_on,
                  send_cmd_task_handler, cmd_TX_queue, connection_state,
                  module_was_initialized, workers, evpc, wifi_on, mainVars, obsVars >>

\* Faulty variant of SendEnqueue: the queue has no capacity limit.
SendEnqueue_NoLimit(t) ==
  /\ ~crashed /\ disp[t].pc = "enqueue"
  /\ cmd_TX_queue # NullQueue
  /\ cmd_TX_queue' = Append(cmd_TX_queue, disp[t].cmd)
  /\ enq' = Append(enq, disp[t].cmd)
  /\ disp' = [disp EXCEPT ![t].pc = "take", ![t].cs_false = FALSE,
                          ![t].ret = "CORE_TCP_CLIENT_OK"]
  /\ UNCHANGED << remote_switches_infos, pressed_button, num_of_presses, button_on,
                  send_cmd_task_handler, connection_state, connection_state_sempahore,
                  module_was_initialized, workers, evpc, wifi_on, mainVars,
                  obsButEnq >>

\* xQueueSend(cmd_TX_queue, &cmd, portMAX_DELAY-1) == pdPASS: a slot is free.
SendEnqueue(t) ==
  /\ ~crashed /\ disp[t].pc = "enqueue"
  /\ cmd_TX_queue # NullQueue
  /\ Len(cmd_TX_queue) < RX_QUEUE_LEN
  /\ cmd_TX_queue' = Append(cmd_TX_queue, disp[t].cmd)
  /\ enq' = Append(enq, disp[t].cmd)
  /\ disp' = [disp EXCEPT ![t].pc = "take", ![t].cs_false = FALSE,
                          ![t].ret = "CORE_TCP_CLIENT_OK"]
  /\ UNCHANGED << remote_switches_infos, pressed_button, num_of_presses, button_on,
                  send_cmd_task_handler, connection_state, connection_state_sempahore,
                  module_was_initialized, workers, evpc, wifi_on, mainVars,
                  obsButEnq >>

\* Faulty variant of SendQueueFull: after the failed insertion send_message tries
\* again instead of returning.
SendQueueFull_Retries(t) ==
  /\ ~crashed /\ disp[t].pc = "enqueue"
  /\ cmd_TX_queue # NullQueue
  /\ Len(cmd_TX_queue) >= RX_QUEUE_LEN
  /\ ~WorkerExists
  /\ disp' = [disp EXCEPT ![t].ret = "CORE_TCP_CLIENT_CANT_INSERT_IN_QUEUE_ERR"]
  /\ UNCHANGED << remote_switches_infos, pressed_button, num_of_presses, button_on,
                  tcpVars, mainVars, obsVars >>

\* xQueueSend != pdPASS: the queue stayed full for the whole wait.
SendQueueFull(t) ==
  /\ ~crashed /\ disp[t].pc = "enqueue"
  /\ cmd_TX_queue # NullQueue
  /\ Len(cmd_TX_queue) >= RX_QUEUE_LEN
  /\ ~WorkerExists
  /\ disp' = [disp EXCEPT ![t].pc = "take", ![t].cs_false = FALSE,
                          ![t].ret = "CORE_TCP_CLIENT_CANT_INSERT_IN_QUEUE_ERR"]
  /\ UNCHANGED << remote_switches_infos, pressed_button, num_of_presses, button_on,
                  tcpVars, mainVars, obsVars >>

(***************************************************************************)
(* TCP_client.c: cmd_TX_func, the worker task.                             *)
(***************************************************************************)

\* xQueueReceive(cmd_TX_queue, &cmd, portMAX_DELAY-1) == pdPASS.
WorkerReceive(w) ==
  /\ ~crashed /\ workers[w].pc = "recv"
  /\ cmd_TX_queue # << >> /\ cmd_TX_queue # NullQueue
  /\ workers' = [workers EXCEPT ![w].cmd = Head(cmd_TX_queue), ![w].pc = "connect",
                                ![w].stale = (stale > 0)]
  /\ cmd_TX_queue' = Tail(cmd_TX_queue)
  /\ stale' = IF stale > 0 THEN stale - 1 ELSE 0
  /\ UNCHANGED << rsVars, send_cmd_task_handler, connection_state,
                  connection_state_sempahore, module_was_initialized, evpc, wifi_on,
                  mainVars, obsButStale >>

\* socket() and connect(): a failure of either is only logged.
WorkerConnect(w) ==
  /\ ~crashed /\ workers[w].pc = "connect"
  /\ \E r \in {"connected", "refused"} :
       workers' = [workers EXCEPT ![w].pc = "write", ![w].io = r]
  /\ UNCHANGED << rsVars, send_cmd_task_handler, cmd_TX_queue, connection_state,
                  connection_state_sempahore, module_was_initialized, evpc, wifi_on,
                  mainVars, obsVars >>

\* Faulty variant of WorkerWrite: after a failed write the worker keeps the command
\* and writes it again.
WorkerWrite_Retries(w) ==
  /\ ~crashed /\ workers[w].pc = "write"
  /\ tx' = Append(tx, workers[w].cmd)
  /\ \E r \in IF workers[w].io = "connected" THEN {"written", "failed"} ELSE {"failed"} :
       workers' = IF r = "failed"
                    THEN [workers EXCEPT ![w].io = "connected"]
                    ELSE [workers EXCEPT ![w].cmd = ZeroCmd, ![w].stale = FALSE,
                                         ![w].io = r, ![w].pc = "close"]
  /\ UNCHANGED << rsVars, send_cmd_task_handler, cmd_TX_queue, connection_state,
                  connection_state_sempahore, module_was_initialized, evpc, wifi_on,
                  mainVars, lifecycle, presses, lost, dispatched, inits,
                  midsend_down, enq, stale, set_ret, reconnect >>

\* write(sock_fd, &cmd, TCP_COMMAND_SIZE), which fails on a socket that is not
\* connected and may fail on one that is; the failure is only logged; then
\* bzero(&cmd).
WorkerWrite(w) ==
  /\ ~crashed /\ workers[w].pc = "write"
  /\ tx' = Append(tx, workers[w].cmd)
  /\ \E r \in IF workers[w].io = "connected" THEN {"written", "failed"} ELSE {"failed"} :
       workers' = [workers EXCEPT ![w].cmd = ZeroCmd, ![w].stale = FALSE,
                                  ![w].io = r, ![w].pc = "close"]
  /\ UNCHANGED << rsVars, send_cmd_task_handler, cmd_TX_queue, connection_state,
                  connection_state_sempahore, module_was_initialized, evpc, wifi_on,
                  mainVars, lifecycle, presses, lost, dispatched, inits,
                  midsend_down, enq, stale, set_ret, reconnect >>

\* shutdown(sock_fd, 0); close(sock_fd); back to xQueueReceive.
WorkerClose(w) ==
  /\ ~crashed /\ workers[w].pc = "close"
  /\ workers' = [workers EXCEPT ![w].pc = "recv", ![w].io = "none"]
  /\ UNCHANGED << rsVars, send_cmd_task_handler, cmd_TX_queue, connection_state,
                  connection_state_sempahore, module_was_initialized, evpc, wifi_on,
                  mainVars, obsVars >>

(***************************************************************************)
(* TCP_client.c: the event task running IP_event_handler and               *)
(* WiFi_event_handler.  The event loop runs one handler at a time.         *)
(***************************************************************************)

\* The transport posts IP_EVENT_STA_GOT_IP (AddressAcquired).
DeliverGotIP ==
  /\ ~crashed /\ wifi_on /\ evpc = "idle"
  /\ evpc' = "ip_take"
  /\ lifecycle' = "Connected"
  /\ midsend_down' = FALSE
  /\ UNCHANGED << rsVars, send_cmd_task_handler, cmd_TX_queue, connection_state,
                  connection_state_sempahore, module_was_initialized, workers, wifi_on,
                  mainVars, presses, lost, dispatched, tx, inits, enq, stale,
                  set_ret, reconnect >>

\* The transport posts WIFI_EVENT_STA_DISCONNECTED (LinkDown).
DeliverLinkDown ==
  /\ ~crashed /\ wifi_on /\ evpc = "idle"
  /\ evpc' = "wd_take"
  /\ lifecycle' = "Disconnected"
  /\ midsend_down' = \E w \in WorkerIds : MidSend(w)
  /\ reconnect' = 0
  /\ UNCHANGED << rsVars, send_cmd_task_handler, cmd_TX_queue, connection_state,
                  connection_state_sempahore, module_was_initialized, workers, wifi_on,
                  mainVars, presses, lost, dispatched, tx, inits, enq, stale,
                  set_ret >>

\* A running task or handler is between the take and the give of the guard's token.
TokenHeld ==
  \/ \E t \in Button_ID : disp[t].pc = "hold"
  \/ mpc = "init_hold"
  \/ evpc \in {"ip_write", "wd_write"}

\* set_connection_state(portMAX_DELAY-1, state): xSemaphoreTake succeeds.  Taking a
\* NULL semaphore handle aborts.
EvSetTake ==
  /\ ~crashed /\ evpc \in {"ip_take", "wd_take"}
  /\ connection_state_sempahore # 0
  /\ IF connection_state_sempahore = NULL
       THEN /\ crashed' = TRUE
            /\ UNCHANGED << evpc, connection_state_sempahore >>
       ELSE /\ connection_state_sempahore' = 0
            /\ evpc' = IF evpc = "ip_take" THEN "ip_write" ELSE "wd_write"
            /\ UNCHANGED crashed
  /\ UNCHANGED << rsVars, send_cmd_task_handler, cmd_TX_queue, connection_state,
                  module_was_initialized, workers, wifi_on,
                  mpc, rs_ret, init_ret, deinit_ret, obsVars >>

\* set_connection_state: connection_state = state; xSemaphoreGive, whose failure
\* (the semaphore was created anew meanwhile) makes it return false.
EvSetWrite ==
  /\ ~crashed /\ evpc \in {"ip_write", "wd_write"}
  /\ connection_state' = (evpc = "ip_write")
  /\ connection_state_sempahore' = GiveToken
  /\ set_ret' = IF connection_state_sempahore = 0 THEN "TRUE" ELSE "FALSE"
  /\ evpc' = IF evpc = "ip_write" THEN "ip_create" ELSE "wd_delete"
  /\ disp' = [t \in Button_ID |->
               IF evpc = "ip_write" THEN [disp[t] EXCEPT !.cs_false = FALSE]
               ELSE disp[t]]
  /\ UNCHANGED << remote_switches_infos, pressed_button, num_of_presses, button_on,
                  send_cmd_task_handler, cmd_TX_queue, module_was_initialized, workers,
                  wifi_on, mainVars, obsButSetRet >>

\* Faulty variant of EvSetTimeout: the state is stored although the token was not
\* acquired.
EvSetTimeout_StoresAnyway ==
  /\ ~crashed /\ evpc \in {"ip_take", "wd_take"}
  /\ connection_state_sempahore = 0 /\ ~TokenHeld
  /\ connection_state' = (evpc = "ip_take")
  /\ set_ret' = "FALSE"
  /\ evpc' = IF evpc = "ip_take" THEN "ip_create" ELSE "wd_delete"
  /\ UNCHANGED << rsVars, send_cmd_task_handler, cmd_TX_queue,
                  connection_state_sempahore, module_was_initialized, workers, wifi_on,
                  mainVars, obsButSetRet >>

\* set_connection_state: xSemaphoreTake != pdTRUE after portMAX_DELAY-1 ticks (the
\* token went with a deleted task); it returns false, which the handlers ignore.
EvSetTimeout ==
  /\ ~crashed /\ evpc \in {"ip_take", "wd_take"}
  /\ connection_state_sempahore = 0 /\ ~TokenHeld
  /\ set_ret' = "FALSE"
  /\ evpc' = IF evpc = "ip_take" THEN "ip_create" ELSE "wd_delete"
  /\ UNCHANGED << rsVars, send_cmd_task_handler, cmd_TX_queue, connection_state,
                  connection_state_sempahore, module_was_initialized, workers, wifi_on,
                  mainVars, obsButSetRet >>

\* The id xTaskCreate gives the next worker task.
FreshWorker == CHOOSE w \in WorkerIds :
                 /\ workers[w].pc = "none"
                 /\ \A v \in WorkerIds : workers[v].pc = "none" => w <= v

\* IP_EVENT_STA_GOT_IP, after set_connection_state: xTaskCreate(cmd_TX_func, ...,
\* &send_cmd_task_handler).  A failure (ret != pdPASS) is not handled and leaves
\* send_cmd_task_handler as it was.
IPCreateTask ==
  /\ ~crashed /\ evpc = "ip_create"
  /\ \/ /\ \E w \in WorkerIds : workers[w].pc = "none"
        /\ workers' = [workers EXCEPT ![FreshWorker] = [NoWorker EXCEPT !.pc = "recv"]]
        /\ send_cmd_task_handler' = FreshWorker
     \/ UNCHANGED << workers, send_cmd_task_handler >>
  /\ evpc' = "idle"
  /\ UNCHANGED << rsVars, cmd_TX_queue, connection_state, connection_state_sempahore,
                  module_was_initialized, wifi_on, mainVars, obsVars >>

\* WIFI_EVENT_STA_DISCONNECTED, after set_connection_state:
\* if(send_cmd_task_handler != NULL) vTaskDelete(send_cmd_task_handler); then
\* esp_wifi_connect().  The handle is not cleared: deleting a task that was
\* already deleted is undefined (no visible effect, or an abort).
WDDeleteTask ==
  /\ ~crashed /\ evpc = "wd_delete"
  /\ LET h == send_cmd_task_handler
         \* The workers that go on: what they are sending was being sent at this
         \* LinkDown.
         rest == [w \in WorkerIds |->
                   IF MidSend(w) THEN [workers[w] EXCEPT !.stale = TRUE]
                   ELSE workers[w]]
     IN
       \/ /\ h = NULL
          /\ workers' = rest
          /\ UNCHANGED crashed
       \/ /\ h # NULL /\ Alive(h)
          /\ workers' = [rest EXCEPT ![h] = [NoWorker EXCEPT !.pc = "deleted"]]
          /\ UNCHANGED crashed
       \/ /\ h # NULL /\ ~Alive(h)
          /\ crashed' \in BOOLEAN
          /\ workers' = rest
  /\ stale' = IF cmd_TX_queue = NullQueue THEN 0 ELSE Len(cmd_TX_queue)
  /\ reconnect' = IF crashed' THEN reconnect ELSE reconnect + 1
  /\ evpc' = "idle"
  /\ UNCHANGED << rsVars, send_cmd_task_handler, cmd_TX_queue, connection_state,
                  connection_state_sempahore, module_was_initialized, wifi_on,
                  mpc, rs_ret, init_ret, deinit_ret, lifecycle, presses, lost,
                  dispatched, tx, inits, midsend_down, enq, set_ret >>

(***************************************************************************)
(* TCP_client.c: init_TCP_client and de_init_TCP_client, run by the main   *)
(* task (remote_switch_start_client, remote_switch_stop_client).           *)
(***************************************************************************)

\* init_TCP_client up to WiFi_init.  which: the call that fails ("queue":
\* xQueueCreate, "sem": xSemaphoreCreateCounting, "wifi": WiFi_init) or "ok".
\* A failed xSemaphoreCreateCounting is followed by vSemaphoreDelete(NULL), which
\* aborts or does nothing.
\* WiFi_init starts the station; its WIFI_EVENT_STA_START only calls esp_wifi_connect.
init_TCP_client(which) ==
  /\ send_cmd_task_handler' = NULL
  /\ cmd_TX_queue' = IF which = "queue" THEN NullQueue ELSE << >>
  /\ connection_state_sempahore' =
       CASE which = "queue" -> connection_state_sempahore
         [] which = "sem" -> NULL
         [] OTHER -> 1
  /\ wifi_on' = IF which = "ok" THEN TRUE ELSE wifi_on
  /\ lifecycle' = IF which = "ok" THEN "Connecting" ELSE lifecycle
  /\ init_ret' = CASE which = "queue" -> "CORE_TCP_CLIENT_INIT_QUEUE_ERR"
                   [] which = "sem" -> "CORE_TCP_CLIENT_INIT_SEMAPHORE_ERR"
                   [] which = "wifi" -> "CORE_TCP_CLIENT_INIT_ERR"
                   [] OTHER -> "PENDING"
  /\ mpc' = IF which = "ok" THEN "init_get" ELSE "running"
  /\ crashed' \in IF which = "sem" THEN BOOLEAN ELSE {crashed}
  /\ stale' = 0

\* remote_switch_start_client, from app_main or again after a stop.
MainInitTCP ==
  /\ ~crashed /\ mpc \in {"start_client", "stopped"} /\ inits < MaxInits
  /\ \E which \in {"ok", "queue", "sem", "wifi"} : init_TCP_client(which)
  /\ inits' = inits + 1
  /\ UNCHANGED << rsVars, connection_state, module_was_initialized, workers, evpc,
                  rs_ret, deinit_ret, presses, lost, dispatched, tx, midsend_down,
                  enq, set_ret, reconnect >>

\* init_TCP_client: get_connection_state(MAX_TIME_TO_WAIT_TO_SEND), xSemaphoreTake
\* succeeds.
MainGetTake ==
  /\ ~crashed /\ mpc = "init_get"
  /\ connection_state_sempahore = 1
  /\ connection_state_sempahore' = 0
  /\ mpc' = "init_hold"
  /\ UNCHANGED << rsVars, send_cmd_task_handler, cmd_TX_queue, connection_state,
                  module_was_initialized, workers, evpc, wifi_on,
                  rs_ret, init_ret, deinit_ret, crashed, obsVars >>

\* init_TCP_client: get_connection_state times out and returns false.
MainGetTimeout ==
  /\ ~crashed /\ mpc = "init_get"
  /\ connection_state_sempahore = 0
  /\ mpc' = "init_delay"
  /\ UNCHANGED << rsVars, tcpVars, rs_ret, init_ret, deinit_ret, crashed, obsVars >>

\* Faulty variant of MainGetRead: the loop ends after the first read, whatever
\* the state read.
MainGetRead_NoWait ==
  /\ ~crashed /\ mpc = "init_hold"
  /\ connection_state_sempahore' = GiveToken
  /\ module_was_initialized' = TRUE
  /\ init_ret' = "CORE_TCP_CLIENT_OK"
  /\ mpc' = "running"
  /\ UNCHANGED << rsVars, send_cmd_task_handler, cmd_TX_queue, connection_state,
                  workers, evpc, wifi_on, rs_ret, deinit_ret, crashed, obsVars >>

\* init_TCP_client: get_connection_state reads connection_state and gives the token;
\* true ends the loop: module_was_initialized = true; return CORE_TCP_CLIENT_OK.
MainGetRead ==
  /\ ~crashed /\ mpc = "init_hold"
  /\ connection_state_sempahore' = GiveToken
  /\ module_was_initialized' = (module_was_initialized \/ connection_state)
  /\ init_ret' = IF connection_state THEN "CORE_TCP_CLIENT_OK" ELSE init_ret
  /\ mpc' = IF connection_state THEN "running" ELSE "init_delay"
  /\ UNCHANGED << rsVars, send_cmd_task_handler, cmd_TX_queue, connection_state,
                  workers, evpc, wifi_on, rs_ret, deinit_ret, crashed, obsVars >>

\* init_TCP_client: vTaskDelay(MAX_TIME_TO_WAIT_TO_SEND), then poll again.
MainDelay ==
  /\ ~crashed /\ mpc = "init_delay"
  /\ mpc' = "init_get"
  /\ UNCHANGED << rsVars, tcpVars, rs_ret, init_ret, deinit_ret, crashed, obsVars >>

\* de_init_TCP_client: connection_state = false, written without the token.
MainDeinit ==
  /\ ~crashed /\ mpc = "running"
  /\ connection_state' = FALSE
  /\ mpc' = "deinit_wifi"
  /\ UNCHANGED << rsVars, send_cmd_task_handler, cmd_TX_queue,
                  connection_state_sempahore, module_was_initialized, workers, evpc,
                  wifi_on, rs_ret, init_ret, deinit_ret, crashed, obsVars >>

\* de_init_TCP_client: de_init_WiFi() stops the station and its events, or fails.
MainDeinitWiFi ==
  /\ ~crashed /\ mpc = "deinit_wifi"
  /\ \/ /\ wifi_on' = FALSE
        /\ lifecycle' = "Disconnected"
        /\ deinit_ret' = "CORE_TCP_CLIENT_OK"
        /\ mpc' = "stopped"
     \/ /\ deinit_ret' = "CORE_TCP_CLIENT_DE_INIT_ERR"
        /\ mpc' = "running"
        /\ UNCHANGED << wifi_on, lifecycle >>
  /\ UNCHANGED << rsVars, send_cmd_task_handler, cmd_TX_queue, connection_state,
                  connection_state_sempahore, module_was_initialized, workers, evpc,
                  rs_ret, init_ret, crashed, presses, lost, dispatched, tx, inits,
                  midsend_down, enq, stale, set_ret, reconnect >>

(***************************************************************************)
(* Remote_switch.c: de_init_remote_switch, run by the main task.           *)
(***************************************************************************)

\* de_init_remote_switch(BUTTON_0) up to de_init_TCP_client: de_init_button (which
\* may fail and end the call); vTaskDelete(task_handler) if it is not NULL, at
\* whatever point the dispatch task is, also between the take and the give of the
\* guard's token; vSemaphoreDelete(semaphore), which aborts or does nothing on a
\* NULL handle.  Neither handle is cleared.
MainDeinitRemoteSwitch ==
  /\ ~crashed /\ mpc = "running"
  /\ \/ /\ rs_ret' = "CORE_REMOTE_SWITCH_DE_INIT_ERR"
        /\ UNCHANGED << button_on, disp, mpc, crashed >>
     \/ /\ button_on' = button_on \ {"BUTTON_0"}
        /\ disp' = IF remote_switches_infos["BUTTON_0"].task_handler
                     THEN [disp EXCEPT !["BUTTON_0"] = [NoTask EXCEPT !.pc = "deleted"]]
                     ELSE disp
        /\ crashed' \in IF remote_switches_infos["BUTTON_0"].semaphore = NULL
                          THEN BOOLEAN ELSE {crashed}
        /\ mpc' = "rs_deinit_tcp"
        /\ UNCHANGED rs_ret
  /\ UNCHANGED << remote_switches_infos, pressed_button, num_of_presses, tcpVars,
                  init_ret, deinit_ret, obsVars >>

\* de_init_remote_switch: de_init_TCP_client() (connection_state = false without the
\* token, then de_init_WiFi, which stops the station and its events or fails) and
\* the return code.
MainDeinitRSClient ==
  /\ ~crashed /\ mpc = "rs_deinit_tcp"
  /\ connection_state' = FALSE
  /\ \/ /\ wifi_on' = FALSE
        /\ lifecycle' = "Disconnected"
        /\ deinit_ret' = "CORE_TCP_CLIENT_OK"
        /\ rs_ret' = "CORE_REMOTE_SWITCH_OK"
     \/ /\ deinit_ret' = "CORE_TCP_CLIENT_DE_INIT_ERR"
        /\ rs_ret' = "CORE_REMOTE_SWITCH_DE_INIT_ERR"
        /\ UNCHANGED << wifi_on, lifecycle >>
  /\ mpc' = "switch_off"
  /\ UNCHANGED << rsVars, send_cmd_task_handler, cmd_TX_queue,
                  connection_state_sempahore, module_was_initialized, workers, evpc,
                  init_ret, crashed, presses, lost, dispatched, tx, inits,
                  midsend_down, enq, stale, set_ret, reconnect >>

(***************************************************************************)
(* Specifications.                                                         *)
(***************************************************************************)

\* The button interrupt and the dispatch task.
Press == \E ID \in Button_ID : button_CB(ID)
Dispatch ==
  \/ \E t \in Button_ID : DispTake(t)
  \/ \E t \in Button_ID : DispSwitch(t)
  \/ \E t \in Button_ID : SendEntry(t)
  \/ \E t \in Button_ID : SendGetTake(t)
  \/ \E t \in Button_ID : SendGetTimeout(t)
  \/ \E t \in Button_ID : SendGetRead(t)
  \/ \E t \in Button_ID : SendEnqueue(t)
\* The worker tasks.
Worker ==
  \/ \E w \in WorkerIds : WorkerReceive(w)
  \/ \E w \in WorkerIds : WorkerConnect(w)
  \/ \E w \in WorkerIds : WorkerWrite(w)
  \/ \E w \in WorkerIds : WorkerClose(w)
\* The event task handling AddressAcquired and LinkDown.
LinkUp == DeliverGotIP \/ EvSetTake \/ EvSetWrite \/ IPCreateTask
LinkDown == DeliverLinkDown \/ WDDeleteTask
\* app_main: init_remote_switch(BUTTON_0), remote_switch_start_client().
Start ==
  \/ MainInitRemoteSwitch
  \/ MainInitTCP
  \/ MainGetTake
  \/ MainGetTimeout
  \/ MainGetRead
  \/ MainDelay
\* The application stops the client (and may start it again).
Stop == MainDeinit \/ MainDeinitWiFi

\* The firmware as app_main starts it: one remote switch (BUTTON_0), the client
\* started once and never stopped.
Next == Start \/ Press \/ Dispatch \/ Worker \/ LinkUp \/ LinkDown

Spec == Init /\ [][Next]_vars

\* The application also stops the client and starts it again; no button is
\* pressed meanwhile.
NextStop == Start \/ Stop \/ LinkUp \/ LinkDown

SpecStop == Init /\ [][NextStop]_vars

\* The link stays up: no LinkDown is delivered.  Every task that can run does run
\* (the scheduler is preemptive and every wait of the tasks is a blocking call).
NextE2E == Start \/ Press \/ Dispatch \/ Worker \/ LinkUp

SpecE2E ==
  /\ Init /\ [][NextE2E]_vars
  /\ WF_vars(Start) /\ WF_vars(Dispatch) /\ WF_vars(Worker)
  /\ WF_vars(EvSetTake \/ EvSetWrite \/ IPCreateTask)

\* Bring-up alone: app_main and the connectivity events, no button pressed.  The
\* main task and the event task run whenever they can.
NextLive == Start \/ LinkUp \/ LinkDown

SpecLive ==
  /\ Init /\ [][NextLive]_vars
  /\ WF_vars(Start)
  /\ WF_vars(EvSetTake \/ EvSetWrite \/ IPCreateTask \/ WDDeleteTask)

\* Level cycling: the application has initialised the remote switches of BUTTON_0
\* and BUTTON_1 and not started the client; BUTTON_1 has been pressed (and the
\* presses dispatched) any number of times up to MaxCount.  The observers count
\* from this state on.
InitLevel ==
  /\ remote_switches_infos =
       [b \in Button_ID |-> IF b \in {"BUTTON_0", "BUTTON_1"}
                              THEN [semaphore |-> 0, task_handler |-> TRUE]
                              ELSE [semaphore |-> NULL, task_handler |-> FALSE]]
  /\ pressed_button \in {"BUTTON_0", "BUTTON_1"}
  /\ \E c \in 0..MaxCount :
       /\ num_of_presses = [b \in Button_ID |-> IF b = "BUTTON_1" THEN c ELSE 0]
       /\ pressed_button = "BUTTON_1" => c >= 1
  /\ button_on = {"BUTTON_0", "BUTTON_1"}
  /\ disp = [b \in Button_ID |->
               IF b \in {"BUTTON_0", "BUTTON_1"}
                 THEN [NoTask EXCEPT !.pc = "take", !.cmd = Cmd("LED_0", "GARBAGE", 0)]
                 ELSE NoTask]
  /\ send_cmd_task_handler = NULL
  /\ cmd_TX_queue = << >>
  /\ connection_state = FALSE
  /\ connection_state_sempahore = NULL
  /\ module_was_initialized = FALSE
  /\ workers = [w \in WorkerIds |-> NoWorker]
  /\ evpc = "idle"
  /\ wifi_on = FALSE
  /\ mpc = "start_client"
  /\ rs_ret = "CORE_REMOTE_SWITCH_OK"
  /\ init_ret = "NONE"
  /\ deinit_ret = "NONE"
  /\ crashed = FALSE
  /\ lifecycle = "Disconnected"
  /\ presses = 0
  /\ lost = 0
  /\ dispatched = 0
  /\ tx = << >>
  /\ inits = 0
  /\ midsend_down = FALSE
  /\ enq = << >>
  /\ stale = 0
  /\ set_ret = "NONE"
  /\ reconnect = 0

NextLevel ==
  \/ Press
  \/ \E t \in Button_ID : DispTake(t)
  \/ \E t \in Button_ID : DispSwitch(t)
  \/ \E t \in Button_ID : DispGetNum(t)
  \/ \E t \in Button_ID : SendEntry(t)

SpecLevel == InitLevel /\ [][NextLevel]_vars

\* A full queue: the client is initialised and connected, the remote switch of
\* BUTTON_0 runs, and the command queue already holds RX_QUEUE_LEN - 2 to
\* RX_QUEUE_LEN toggle commands that no worker has taken yet.  The worker task
\* exists, or its xTaskCreate failed.  The observers count from this state on.
InitQueue ==
  /\ remote_switches_infos =
       [b \in Button_ID |-> IF b = "BUTTON_0"
                              THEN [semaphore |-> 0, task_handler |-> TRUE]
                              ELSE [semaphore |-> NULL, task_handler |-> FALSE]]
  /\ pressed_button = "BUTTON_0"
  /\ num_of_presses = [b \in Button_ID |-> 0]
  /\ button_on = {"BUTTON_0"}
  /\ disp = [b \in Button_ID |->
               IF b = "BUTTON_0"
                 THEN [NoTask EXCEPT !.pc = "take", !.cmd = Cmd("LED_0", "TOOGLE_LED", 0),
                                     !.ret = "CORE_TCP_CLIENT_OK"]
                 ELSE NoTask]
  /\ \E k \in (RX_QUEUE_LEN - 2)..RX_QUEUE_LEN :
       cmd_TX_queue = [i \in 1..k |-> Cmd("LED_0", "TOOGLE_LED", 0)]
  /\ connection_state = TRUE
  /\ connection_state_sempahore = 1
  /\ module_was_initialized = TRUE
  /\ \/ /\ send_cmd_task_handler = 1
        /\ workers = [w \in WorkerIds |->
                        IF w = 1 THEN [NoWorker EXCEPT !.pc = "recv"] ELSE NoWorker]
     \/ /\ send_cmd_task_handler = NULL
        /\ workers = [w \in WorkerIds |-> NoWorker]
  /\ evpc = "idle"
  /\ wifi_on = TRUE
  /\ mpc = "running"
  /\ rs_ret = "CORE_REMOTE_SWITCH_OK"
  /\ init_ret = "CORE_TCP_CLIENT_OK"
  /\ deinit_ret = "NONE"
  /\ crashed = FALSE
  /\ lifecycle = "Connected"
  /\ presses = 0
  /\ lost = 0
  /\ dispatched = 0
  /\ tx = << >>
  /\ inits = 1
  /\ midsend_down = FALSE
  /\ enq = cmd_TX_queue
  /\ stale = 0
  /\ set_ret = "TRUE"
  /\ reconnect = 0

\* No event handler runs here, so the guard's token is always free.
NextQueue ==
  \/ Press
  \/ \E t \in Button_ID : DispTake(t)
  \/ \E t \in Button_ID : DispSwitch(t)
  \/ \E t \in Button_ID : SendEntry(t)
  \/ \E t \in Button_ID : SendGetTake(t)
  \/ \E t \in Button_ID : SendGetRead(t)
  \/ \E t \in Button_ID : SendEnqueue(t)
  \/ \E t \in Button_ID : SendQueueFull(t)
  \/ Worker

SpecQueue == InitQueue /\ [][NextQueue]_vars

\* One remote switch with the queue full or one short of it, in one of three
\* states of the link: up with its worker, up with no worker (the xTaskCreate of
\* the AddressAcquired handler failed), down (the LinkDown handler has deleted
\* the worker and the queue kept its commands) with the link either staying
\* down or coming back (the AddressAcquired handler holds the guard's token).
InitCycle ==
  /\ remote_switches_infos =
       [b \in Button_ID |-> IF b = "BUTTON_0"
                              THEN [semaphore |-> 0, task_handler |-> TRUE]
                              ELSE [semaphore |-> NULL, task_handler |-> FALSE]]
  /\ pressed_button = "BUTTON_0"
  /\ num_of_presses = [b \in Button_ID |-> 0]
  /\ button_on = {"BUTTON_0"}
  /\ disp = [b \in Button_ID |->
               IF b = "BUTTON_0"
                 THEN [NoTask EXCEPT !.pc = "take", !.cmd = Cmd("LED_0", "GARBAGE", 0)]
                 ELSE NoTask]
  /\ \E k \in (RX_QUEUE_LEN - 1)..RX_QUEUE_LEN :
       /\ cmd_TX_queue = [i \in 1..k |-> Cmd("LED_0", "TOOGLE_LED", 0)]
       /\ \/ /\ connection_state = TRUE /\ lifecycle = "Connected"
             /\ send_cmd_task_handler = 1
             /\ workers = [w \in WorkerIds |->
                             IF w = 1 THEN [NoWorker EXCEPT !.pc = "recv"] ELSE NoWorker]
             /\ stale = 0 /\ reconnect = 0 /\ evpc = "idle"
          \/ /\ connection_state = TRUE /\ lifecycle = "Connected"
             /\ send_cmd_task_handler = NULL
             /\ workers = [w \in WorkerIds |-> NoWorker]
             /\ stale = 0 /\ reconnect = 0 /\ evpc = "idle"
          \/ /\ connection_state = FALSE
             /\ \/ evpc = "idle" /\ lifecycle = "Disconnected"
                \/ evpc = "ip_write" /\ lifecycle = "Connected"
             /\ send_cmd_task_handler = 1
             /\ workers = [w \in WorkerIds |->
                             IF w = 1 THEN [NoWorker EXCEPT !.pc = "deleted"] ELSE NoWorker]
             /\ stale = k /\ reconnect = 1
  /\ connection_state_sempahore = IF evpc = "ip_write" THEN 0 ELSE 1
  /\ module_was_initialized = TRUE
  /\ wifi_on = TRUE
  /\ mpc = "running"
  /\ rs_ret = "CORE_REMOTE_SWITCH_OK"
  /\ init_ret = "CORE_TCP_CLIENT_OK"
  /\ deinit_ret = "NONE"
  /\ crashed = FALSE
  /\ presses = 0
  /\ lost = 0
  /\ dispatched = 0
  /\ tx = << >>
  /\ inits = 1
  /\ midsend_down = FALSE
  /\ enq = cmd_TX_queue
  /\ set_ret = "TRUE"

NextCycle ==
  \/ Press
  \/ Dispatch
  \/ \E t \in Button_ID : SendQueueFull(t)
  \/ Worker
  \/ EvSetWrite
  \/ IPCreateTask

\* The scheduler lets every ready task run (the dispatch task has the highest
\* priority, the worker the next, the event loop runs its handler to the end),
\* and a wait that can only end by its timeout does end.
SpecCycle ==
  /\ InitCycle /\ [][NextCycle]_vars
  /\ WF_vars(Dispatch \/ \E t \in Button_ID : SendQueueFull(t))
  /\ WF_vars(Worker)
  /\ WF_vars(EvSetWrite \/ IPCreateTask)

\* The application takes the remote switch down (de_init_remote_switch) while
\* presses and connectivity events go on; the worker tasks do not take part in
\* the guard and are left out.
SwitchOff == MainDeinitRemoteSwitch \/ MainDeinitRSClient
NextGuard == Start \/ Press \/ Dispatch \/ LinkUp \/ LinkDown \/ SwitchOff \/ EvSetTimeout

SpecGuard == Init /\ [][NextGuard]_vars

\* The state once a remote switch has been initialised for each button of B and
\* the client has been started and is connected, its worker waiting on the queue.
InitSwitches(B) ==
  /\ remote_switches_infos =
       [b \in Button_ID |-> IF b \in B
                              THEN [semaphore |-> 0, task_handler |-> TRUE]
                              ELSE [semaphore |-> NULL, task_handler |-> FALSE]]
  /\ pressed_button = "BUTTON_0"
  /\ num_of_presses = [b \in Button_ID |-> 0]
  /\ button_on = B
  /\ disp = [b \in Button_ID |->
               IF b \in B
                 THEN [NoTask EXCEPT !.pc = "take", !.cmd = Cmd("LED_0", "GARBAGE", 0)]
                 ELSE NoTask]
  /\ send_cmd_task_handler = 1
  /\ cmd_TX_queue = << >>
  /\ connection_state = TRUE
  /\ connection_state_sempahore = 1
  /\ module_was_initialized = TRUE
  /\ workers = [w \in WorkerIds |-> IF w = 1 THEN [NoWorker EXCEPT !.pc = "recv"]
                                     ELSE NoWorker]
  /\ evpc = "idle"
  /\ wifi_on = TRUE
  /\ mpc = "running"
  /\ rs_ret = "CORE_REMOTE_SWITCH_OK"
  /\ init_ret = "CORE_TCP_CLIENT_OK"
  /\ deinit_ret = "NONE"
  /\ crashed = FALSE
  /\ lifecycle = "Connected"
  /\ presses = 0
  /\ lost = 0
  /\ dispatched = 0
  /\ tx = << >>
  /\ inits = 1
  /\ midsend_down = FALSE
  /\ enq = << >>
  /\ stale = 0
  /\ set_ret = "TRUE"
  /\ reconnect = 0

\* A build with three buttons, each with its remote switch; presses of any
\* button follow.
InitButtons == InitSwitches(Button_ID)

NextButtons ==
  \/ Press
  \/ Dispatch
  \/ \E t \in Button_ID : DispGetNum(t)
  \/ Worker

SpecButtons == InitButtons /\ [][NextButtons]_vars

\* Two remote switches (BUTTON_0 toggles, BUTTON_1 sets the level), the link up:
\* presses, and AddressAcquired events that are not preceded by a LinkDown.
InitOrder == InitSwitches({"BUTTON_0", "BUTTON_1"})

NextOrder == NextButtons \/ LinkUp

SpecOrder == InitOrder /\ [][NextOrder]_vars

\* The application stops the client and starts it again while the button is
\* pressed; the link, once up, stays up, and the workers are left out.
NextReinit == Start \/ Stop \/ Press \/ Dispatch \/ LinkUp

SpecReinit == Init /\ [][NextReinit]_vars

(***************************************************************************)
(* Properties.                                                             *)
(***************************************************************************)

\* No event handler is running, and the firmware is up to have one run.
HandlersDone == evpc = "idle" /\ wifi_on /\ ~crashed

\* C1: once an event handler has finished, a worker task (cmd_TX_func) exists if
\* and only if the lifecycle is Connected (the last connectivity event was
\* AddressAcquired).
C1_WorkerIffConnected ==
  HandlersDone => (WorkerExists <=> lifecycle = "Connected")

\* The dispatch task t leaves send_message in this step.
SendReturns(t) ==
  /\ disp[t].pc \in {"send", "get", "hold", "enqueue"}
  /\ disp'[t].pc = "take"

\* connection_state has been false for the whole of t's send_message call, up to
\* the current state.
FalseThroughout(t) ==
  /\ ~connection_state
  /\ disp[t].pc \in {"get", "hold", "enqueue"} => disp[t].cs_false

DispatchIdle ==
  /\ rs_ret = "CORE_REMOTE_SWITCH_OK" /\ ~crashed
  /\ disp["BUTTON_0"].pc = "take"
  /\ remote_switches_infos["BUTTON_0"].semaphore = 0

\* C3 as stated: whatever the interleaving of button_CB with the dispatch task,
\* once the dispatch task is idle again the number of send_message calls equals
\* the number of presses.
C3_DispatchedEqualsPresses ==
  DispatchIdle => dispatched = presses

\* Presses whose signal the dispatch task has taken but not yet passed to
\* send_message.
InFlight == IF disp["BUTTON_0"].pc \in {"switch", "getnum", "send"} THEN 1 ELSE 0

\* C3 amended: the send_message calls, the signal pending in the semaphore and
\* the signal being processed add up to the presses that found the semaphore
\* empty; a press that finds it already given is merged with the pending one.
C3_DispatchedEqualsSignals ==
  (rs_ret = "CORE_REMOTE_SWITCH_OK" /\ ~crashed) =>
    /\ dispatched + InFlight + remote_switches_infos["BUTTON_0"].semaphore
         = presses - lost
    /\ dispatched <= presses

\* C3 witness: three presses, one of them merged, the other two dispatched.
C3_Witness ==
  DispatchIdle /\ presses = 3 /\ lost = 1 /\ dispatched = 2

\* C4: after a LinkDown delivered while a worker was mid-send has been handled,
\* and until the next AddressAcquired, no worker is still sending and no
\* command is removed from the command queue.
C4_NoDrainAfterLinkDown ==
  [][(midsend_down /\ evpc = "idle" /\ lifecycle # "Connected" /\ ~crashed) =>
       /\ \A w \in WorkerIds : ~MidSend(w)
       /\ Len(cmd_TX_queue') >= Len(cmd_TX_queue)]_vars

\* C9: a send_message call entered while module_was_initialized is false returns
\* MODULE_WAS_NOT_INIT_ERR at once: it does not take the guard's token and leaves
\* the command queue as it is.
C9_NotInitRefused ==
  [][\A t \in Button_ID :
       (disp[t].pc = "send" /\ ~module_was_initialized /\ disp'[t] # disp[t]) =>
         /\ disp'[t].ret = "CORE_TCP_CLIENT_MODULE_WAS_NOT_INIT_ERR"
         /\ disp'[t].pc = "take"
         /\ connection_state_sempahore' = connection_state_sempahore
         /\ cmd_TX_queue' = cmd_TX_queue]_vars

\* C9 witness: a press dispatched while init_TCP_client still polls for the first
\* connection was refused.
C9_Witness ==
  /\ ~module_was_initialized /\ lifecycle = "Connecting"
  /\ mpc \in {"init_get", "init_hold", "init_delay"}
  /\ disp["BUTTON_0"].pc = "take"
  /\ disp["BUTTON_0"].ret = "CORE_TCP_CLIENT_MODULE_WAS_NOT_INIT_ERR"
  /\ dispatched = 1 /\ cmd_TX_queue = << >>

\* No handler and no de_init_TCP_client call is under way.
Settled == evpc = "idle" /\ mpc # "deinit_wifi" /\ ~crashed

\* C5: whatever the order of AddressAcquired, LinkDown, init_TCP_client and
\* de_init_TCP_client, once the handlers and calls have finished the stored
\* connection_state is true exactly when the lifecycle is Connected.
C5_GuardMatchesLifecycle ==
  Settled => (connection_state <=> lifecycle = "Connected")

\* The system is initialised, the first AddressAcquired has been handled,
\* init_TCP_client has returned OK, and no button has been pressed yet.
ReadyForPress ==
  /\ rs_ret = "CORE_REMOTE_SWITCH_OK"
  /\ init_ret = "CORE_TCP_CLIENT_OK" /\ mpc = "running"
  /\ lifecycle = "Connected" /\ evpc = "idle"
  /\ presses = 0 /\ ~crashed

\* Exactly one command was written to the gateway, a toggle of LED_0.
OneToggleWritten ==
  /\ Len(tx) = 1
  /\ tx[1].action = "TOOGLE_LED" /\ tx[1].ID = "LED_0"

\* The send of the press was given up because the guard's token was not free
\* within MAX_TIME_TO_WAIT_TO_SEND.
GuardTimedOut == disp["BUTTON_0"].ret = "CORE_TCP_CLIENT_SEND_TIME_OUT_WARN"

\* C6: once the system is initialised and init_TCP_client has returned OK, a
\* single press of BUTTON_0 with the link staying up leads to exactly one command
\* written to the gateway, with action TOOGLE_LED and actuator LED_0 (unless
\* the press is followed by another, or its send met a guard timeout).
C6_EndToEnd ==
  [](ReadyForPress =>
       [](presses = 1 => <>(presses > 1 \/ GuardTimedOut \/ OneToggleWritten)))

\* The levels of presses 1..9, as the specification lists them.
Levels == << 30, 40, 50, 60, 70, 80, 90, 100, 20 >>

C8_FullQueue ==
  /\ [](Len(cmd_TX_queue) <= RX_QUEUE_LEN)
  /\ [][\A t \in Button_ID :
          (disp[t].pc = "enqueue" /\ disp'[t] # disp[t]) =>
            \/ /\ Len(cmd_TX_queue) < RX_QUEUE_LEN
               /\ cmd_TX_queue' = Append(cmd_TX_queue, disp[t].cmd)
               /\ disp'[t].ret = "CORE_TCP_CLIENT_OK"
               /\ disp'[t].pc = "take"
            \/ /\ Len(cmd_TX_queue) = RX_QUEUE_LEN
               /\ cmd_TX_queue' = cmd_TX_queue
               /\ disp'[t].ret = "CORE_TCP_CLIENT_CANT_INSERT_IN_QUEUE_ERR"
               /\ disp'[t].pc = "take"]_vars

\* C8 witness: a send on a full queue gave up; the queue still holds its
\* RX_QUEUE_LEN commands.
C8_Witness ==
  /\ Len(cmd_TX_queue) = RX_QUEUE_LEN
  /\ disp["BUTTON_0"].pc = "take"
  /\ disp["BUTTON_0"].ret = "CORE_TCP_CLIENT_CANT_INSERT_IN_QUEUE_ERR"
  /\ dispatched >= 1

\* init_TCP_client is in its polling loop.
Polling == mpc \in {"init_get", "init_hold", "init_delay"}

\* C10: init_TCP_client leaves its polling loop only from a guard read that saw
\* connection_state true, then setting module_was_initialized and returning OK;
\* connection_state becomes true only in the AddressAcquired handler; so while no
\* AddressAcquired has been delivered the call has not returned; and when the
\* lifecycle stays Connected with the handlers finished, the call returns.
C10_InitWaitsForConnection ==
  /\ [][(Polling /\ ~Polling') =>
          /\ mpc = "init_hold" /\ connection_state
          /\ module_was_initialized' /\ init_ret' = "CORE_TCP_CLIENT_OK"]_vars
  /\ [][(module_was_initialized' /\ ~module_was_initialized) =>
          (mpc = "init_hold" /\ connection_state)]_vars
  /\ [][(connection_state' /\ ~connection_state) => evpc = "ip_write"]_vars
  /\ [](lifecycle = "Connecting" =>
          (Polling /\ ~module_was_initialized /\ init_ret # "CORE_TCP_CLIENT_OK"))
  /\ (<>[](lifecycle = "Connected" /\ evpc = "idle") =>
        <>(mpc = "running" /\ init_ret = "CORE_TCP_CLIENT_OK"))

\* C10 witness: init_TCP_client has returned OK after the AddressAcquired handler
\* set connection_state.
C10_Witness ==
  /\ mpc = "running" /\ init_ret = "CORE_TCP_CLIENT_OK"
  /\ module_was_initialized /\ connection_state
  /\ lifecycle = "Connected" /\ evpc = "idle"

\* A worker's write of the command it holds, which was queued (or being sent)
\* when the last LinkDown was handled.
StaleWrite ==
  \E w \in WorkerIds : /\ workers[w].pc = "write" /\ workers'[w].pc = "close"
                       /\ workers[w].stale

\* C11: the commands in the queue or being sent when a LinkDown is handled are
\* abandoned: none of them is written to the server once the lifecycle is
\* Connected again.
C11_NoStaleAfterReconnect ==
  [][(tx' # tx /\ lifecycle = "Connected") => ~StaleWrite]_vars

\* The handler of a LinkDown returns.
LinkDownHandled == evpc = "wd_delete" /\ evpc' = "idle"

\* Connected with the guard true and a worker running.
BackConnected ==
  /\ lifecycle = "Connected" /\ evpc = "idle"
  /\ connection_state /\ WorkerExists

\* C12: the handling of every LinkDown, however many came before, makes exactly
\* one esp_wifi_connect request; and an AddressAcquired that answers it brings
\* the system back to Connected with the guard true and a worker running (unless
\* the link goes down again first).
C12_AlwaysReconnects ==
  /\ [][LinkDownHandled => reconnect' = 1]_vars
  /\ (evpc = "ip_take" /\ ~crashed) ~> (BackConnected \/ lifecycle # "Connected")

\* get_connection_state returns without the token: in send_message, in the poll of
\* init_TCP_client.
GetTimesOut(t) == disp[t].pc = "get" /\ disp'[t].pc = "take"
InitGetTimesOut == mpc = "init_get" /\ mpc' = "init_delay"
\* get_connection_state returns with the token acquired.
GetReturns(t) == disp[t].pc = "hold" /\ disp'[t].pc \in {"enqueue", "take"}
InitGetReturns == mpc = "init_hold" /\ mpc' # mpc
\* set_connection_state returns without the token, with the token acquired.
SetTimesOut == evpc \in {"ip_take", "wd_take"} /\ evpc' \in {"ip_create", "wd_delete"}
SetReturns == evpc \in {"ip_write", "wd_write"} /\ evpc' # evpc

\* C13: when the token is not acquired within the wait, get_connection_state
\* returns false whatever connection_state holds (send_message answers
\* SEND_TIME_OUT_WARN, init_TCP_client polls again) and set_connection_state
\* returns false and leaves connection_state as it was; when the token is
\* acquired, get_connection_state returns the stored value, set_connection_state
\* stores the given one, and both give the token back.
C13_GuardContract ==
  [][/\ \A t \in Button_ID :
          GetTimesOut(t) =>
            /\ disp'[t].ret = "CORE_TCP_CLIENT_SEND_TIME_OUT_WARN"
            /\ UNCHANGED << connection_state, connection_state_sempahore, cmd_TX_queue >>
     /\ InitGetTimesOut =>
          UNCHANGED << connection_state, connection_state_sempahore,
                       module_was_initialized, init_ret >>
     /\ SetTimesOut =>
          /\ set_ret' = "FALSE"
          /\ UNCHANGED << connection_state, connection_state_sempahore >>
     /\ \A t \in Button_ID :
          GetReturns(t) =>
            /\ disp'[t].pc = "enqueue" <=> connection_state
            /\ connection_state' = connection_state
            /\ connection_state_sempahore = 0 /\ connection_state_sempahore' = 1
     /\ InitGetReturns =>
          /\ mpc' = "running" <=> connection_state
          /\ connection_state' = connection_state
          /\ connection_state_sempahore = 0 /\ connection_state_sempahore' = 1
     /\ SetReturns =>
          /\ connection_state' = (evpc = "ip_write")
          /\ connection_state_sempahore = 0 /\ connection_state_sempahore' = 1
    ]_vars

\* C13 witness: the set_connection_state(false) of a LinkDown has timed out, the
\* token having gone with the deleted dispatch task, and connection_state is
\* still true.
C13_Witness ==
  /\ set_ret = "FALSE" /\ evpc = "wd_delete"
  /\ connection_state
  /\ disp["BUTTON_0"].pc = "deleted" /\ connection_state_sempahore = 0

\* C14: connection_state is read and written only by the holder of the guard's
\* token: its value changes only in the write of set_connection_state, made with
\* the token taken, and every read of get_connection_state is made with the
\* token taken.
C14_AccessUnderToken ==
  [][/\ connection_state' # connection_state =>
          (SetReturns /\ connection_state_sempahore = 0)
     /\ (InitGetReturns \/ \E t \in Button_ID : GetReturns(t)) =>
          connection_state_sempahore = 0
    ]_vars

\* C15: when the dispatch task wakes with pressed_button holding an identity it
\* does not recognise (neither BUTTON_0 nor BUTTON_1), it drops the press: it goes
\* back to wait for the next signal without calling send_message.
C15_UnknownButtonDropped ==
  [][\A t \in Button_ID :
       (/\ disp[t].pc = "switch" /\ disp'[t].pc # "switch"
        /\ pressed_button \notin {"BUTTON_0", "BUTTON_1"})
         => disp'[t].pc = "take"]_vars

\* s is an initial part of q.
IsPrefix(s, q) == Len(s) <= Len(q) /\ \A i \in 1..Len(s) : s[i] = q[i]

\* C16: with the link up, the commands are written to the server in exactly the
\* order in which send_message queued them: what has been written is always an
\* initial part of what has been queued.
C16_SentInQueueOrder == IsPrefix(tx, enq)

\* C17: at most one worker task (cmd_TX_func) exists at any time, whatever the
\* sequence of connectivity events and init_TCP_client calls: cmd_TX_queue never
\* has two consumers.
C17_OneWorker == Cardinality({w \in WorkerIds : Alive(w)}) <= 1

\* The last init_TCP_client call returned an error code.
InitFailed ==
  init_ret \in {"CORE_TCP_CLIENT_INIT_QUEUE_ERR", "CORE_TCP_CLIENT_INIT_SEMAPHORE_ERR",
                "CORE_TCP_CLIENT_INIT_ERR"}

\* C18: after an init_TCP_client call that returned an error code, and until one
\* succeeds, every send_message call returns MODULE_WAS_NOT_INIT_ERR at its entry
\* (and so enqueues nothing), also when an earlier init_TCP_client had succeeded.
C18_FailedInitRefuses ==
  [][\A t \in Button_ID :
       (InitFailed /\ disp[t].pc = "send" /\ disp'[t].pc # "send")
         => /\ disp'[t].pc = "take"
            /\ disp'[t].ret = "CORE_TCP_CLIENT_MODULE_WAS_NOT_INIT_ERR"]_vars

\* A dispatch task's xSemaphoreTake returns: one wake-up.
WakesUp(t) == disp[t].pc = "take" /\ disp'[t].pc = "switch"

\* C19: the count of a button semaphore is always 0 or 1 (where the semaphore
\* exists): a button_CB leaves the count at 1 whatever it was, and a wake-up
\* needs the count at 1 and leaves it at 0, so the presses made before the take
\* produce one wake-up and leave no backlog.
C19_SignalIdempotent ==
  /\ [](\A b \in Button_ID : remote_switches_infos[b].semaphore \in {NULL, 0, 1})
  /\ [][/\ (presses' = presses + 1 /\ ~crashed') =>
              remote_switches_infos'["BUTTON_0"].semaphore = 1
         /\ \A t \in Button_ID :
              WakesUp(t) => /\ remote_switches_infos["BUTTON_0"].semaphore = 1
                            /\ remote_switches_infos'["BUTTON_0"].semaphore = 0
        ]_vars

\* C19 witness: three presses came before the take; the dispatch task has woken
\* once and the semaphore is empty.
C19_Witness ==
  /\ presses = 3 /\ lost = 2 /\ dispatched = 0
  /\ disp["BUTTON_0"].pc = "switch"
  /\ remote_switches_infos["BUTTON_0"].semaphore = 0

\* C20: button_CB(ID) records ID in pressed_button and signals the semaphore of
\* button ID, and the dispatch task created for a button wakes on the signal of
\* that button's semaphore, not on another's.
C20_SignalsOwnButton ==
  [][/\ (presses' = presses + 1 /\ ~crashed') =>
          remote_switches_infos'[pressed_button'].semaphore = 1
     /\ \A t \in Button_ID :
          WakesUp(t) => /\ remote_switches_infos[t].semaphore = 1
                        /\ remote_switches_infos'[t].semaphore = 0
    ]_vars

\* The dispatch task t reads pressed_button and leaves the switch statement.
ReadsPressed(t) == disp[t].pc = "switch" /\ disp'[t].pc # "switch"

\* C21: pressed_button always holds the identity of the press recorded last (a
\* button_CB(ID) stores ID, nothing else writes it), and on each wake the dispatch
\* task builds its command from the value pressed_button has when the task reads
\* it: the toggle for BUTTON_0, the set-level command for BUTTON_1.
C21_LastPressedWins ==
  [][/\ \A b \in Button_ID :
          num_of_presses'[b] # num_of_presses[b] => pressed_button' = b
     /\ pressed_button' # pressed_button => presses' = presses + 1
     /\ \A t \in Button_ID :
          ReadsPressed(t) =>
            /\ pressed_button = "BUTTON_0" =>
                 /\ disp'[t].cmd.ID = "LED_0" /\ disp'[t].cmd.action = "TOOGLE_LED"
                 /\ disp'[t].pc = "send"
            /\ pressed_button = "BUTTON_1" =>
                 /\ disp'[t].cmd.ID = "LED_0" /\ disp'[t].cmd.action = "SET_PWM"
                 /\ disp'[t].pc = "getnum"
    ]_vars

\* C21 witness: BUTTON_0 was pressed, then BUTTON_1 before the dispatch task ran
\* (its signal merged with the pending one); the single wake builds the
\* set-level command of BUTTON_1.
C21_Witness ==
  /\ presses = 2 /\ lost = 1 /\ dispatched = 0
  /\ num_of_presses["BUTTON_0"] = 1 /\ num_of_presses["BUTTON_1"] = 1
  /\ pressed_button = "BUTTON_1"
  /\ \E t \in Button_ID : disp[t].pc = "getnum" /\ disp[t].cmd.action = "SET_PWM"

\* The commands xQueueReceive has taken from the queue so far.
Dequeued == IF cmd_TX_queue = NullQueue THEN 0 ELSE Len(enq) - Len(cmd_TX_queue)
\* The workers that hold a dequeued command not yet handed to write().
ToWrite == {w \in WorkerIds : workers[w].pc \in {"connect", "write"}}
\* The order of cmd_TX_func's loop; a task can also be created or deleted.
WorkerOrder(w) ==
  \/ workers'[w].pc = workers[w].pc
  \/ << workers[w].pc, workers'[w].pc >> \in
       {<< "recv", "connect" >>, << "connect", "write" >>, << "write", "close" >>,
        << "close", "recv" >>, << "none", "recv" >>}
  \/ workers'[w].pc = "deleted"

\* C22: for each command it dequeues a worker goes through connect, one write and
\* close, in that order; whatever the outcome of the connect and of the write the
\* command is dropped after that one write (the worker holds no command when it
\* closes and when it waits on the queue), it is never put back in the queue, and
\* the writes never outnumber the dequeued commands.
C22_AtMostOnce ==
  /\ [](/\ \A w \in WorkerIds :
            workers[w].pc \in {"none", "recv", "close", "deleted"} =>
              workers[w].cmd = ZeroCmd
        /\ Len(tx) + Cardinality(ToWrite) <= Dequeued)
  /\ [][/\ \A w \in WorkerIds : WorkerOrder(w)
        /\ \A w \in WorkerIds :
             (workers[w].pc = "write" /\ workers'[w].pc = "close") =>
               /\ tx' = Append(tx, workers[w].cmd)
               /\ (workers[w].io = "refused" => workers'[w].io = "failed")
        /\ tx' # tx => \E w \in WorkerIds :
                          workers[w].pc = "write" /\ workers'[w].pc = "close"
        /\ cmd_TX_queue' # cmd_TX_queue =>
             \/ inits' # inits
             \/ \E t \in Button_ID : disp[t].pc = "enqueue" /\ disp'[t].pc = "take"
             \/ cmd_TX_queue # << >> /\ cmd_TX_queue' = Tail(cmd_TX_queue)
       ]_vars

\* C22 witness: the connect of the one queued command was refused and its write
\* failed; the command was handed to write() once, the worker has dropped it and
\* the queue is empty.
C22_Witness ==
  /\ Len(enq) = 1 /\ cmd_TX_queue = << >> /\ Len(tx) = 1
  /\ \E w \in WorkerIds : workers[w].pc = "close" /\ workers[w].io = "failed"

\* A step of the dispatch task t that does not come from a timeout.
Proceeds(t) ==
  \/ DispTake(t) \/ DispSwitch(t) \/ DispGetNum(t)
  \/ SendEntry(t) \/ SendGetTake(t) \/ SendGetRead(t) \/ SendEnqueue(t)
\* The dispatch task t exists and is blocked: it can go on only when another task
\* acts or a timeout expires.
Blocked(t) == disp[t].pc \notin {"none", "deleted"} /\ ~ENABLED Proceeds(t)
\* After every wake the task comes back to its xSemaphoreTake.
ReturnsToIdle ==
  \A t \in Button_ID : (disp[t].pc \notin {"none", "take"}) ~> (disp[t].pc = "take")

\* C23 as stated: after every wake the dispatch task eventually returns to
\* waiting on its semaphore, and it blocks only on its button signal and on the
\* queue insertion.
C23_BlocksOnSignalAndQueue ==
  /\ ReturnsToIdle
  /\ [](\A t \in Button_ID : Blocked(t) => disp[t].pc \in {"take", "enqueue"})

\* C23 amended: after every wake the dispatch task eventually returns to waiting
\* on its semaphore, and it blocks only on its button signal, on the guard's
\* token (in get_connection_state) and on the queue insertion.
C23_DispatchCycle ==
  /\ ReturnsToIdle
  /\ [](\A t \in Button_ID : Blocked(t) => disp[t].pc \in {"take", "get", "enqueue"})

\* C23 witness: with the queue full and no worker the insertion has timed out and
\* the task is back at its semaphore with the error code.
C23_Witness ==
  /\ disp["BUTTON_0"].pc = "take"
  /\ disp["BUTTON_0"].ret = "CORE_TCP_CLIENT_CANT_INSERT_IN_QUEUE_ERR"
  /\ Len(cmd_TX_queue) = RX_QUEUE_LEN /\ dispatched >= 1

\* C24: the LinkDown handler never deletes a task that no longer exists:
\* send_cmd_task_handler is non-NULL only while the worker it names is alive, so
\* the handler reaches its vTaskDelete only with a NULL handle (and skips it) or
\* with the handle of a live worker.
C24_HandleNamesLiveWorker ==
  /\ send_cmd_task_handler # NULL => Alive(send_cmd_task_handler)
  /\ evpc = "wd_delete" =>
       (send_cmd_task_handler = NULL \/ Alive(send_cmd_task_handler))

\* C25: a command is inserted into the queue only at an instant when
\* connection_state is true: every xQueueSend of send_message that succeeds
\* finds the connection up.
C25_EnqueuedWhileConnected ==
  [][\A t \in Button_ID :
       (/\ disp[t].pc = "enqueue" /\ disp'[t].pc = "take"
        /\ cmd_TX_queue' = Append(cmd_TX_queue, disp[t].cmd))
       => connection_state]_vars

\* C26: the guard's token is never lost: whenever no task or handler is inside
\* get_connection_state or set_connection_state the token is available, also
\* after a task has been deleted.
C26_TokenNeverLost ==
  (connection_state_sempahore # NULL /\ ~TokenHeld) => connection_state_sempahore = 1

\* de_init_TCP_client has returned CORE_TCP_CLIENT_OK and init_TCP_client has not
\* been called since.
ClientStopped == mpc = "stopped" /\ deinit_ret = "CORE_TCP_CLIENT_OK"

\* C27: after de_init_TCP_client has returned CORE_TCP_CLIENT_OK the client is
\* stopped until init_TCP_client is called again: no worker remains,
\* connection_state is false, no command is transmitted and no reconnection is
\* requested.
C27_StoppedClientIsQuiet ==
  /\ [](ClientStopped => (~WorkerExists /\ ~connection_state))
  /\ [][ClientStopped => (tx' = tx /\ reconnect' = reconnect)]_vars

====
